---- MODULE Spec2Model ----
\* Ownership wrappers around FFmpeg's native handles
\* (torchaudio/csrc/ffmpeg/ffmpeg.cpp): the native heap, the five owning
\* handles, the option dictionary helpers and the constructors' error paths.
EXTENDS Integers, Sequences, FiniteSets, TLC

\* ---------------------------------------------------------------- bounds
\* Number of native heap cells.
NumAddr == 3
\* Largest number of filters the pipeline adds to one graph.
MaxFilters == 2
\* Largest number of guard cycles on one native packet.
MaxUnrefs == 2
\* Largest channel count an opened codec context reports.
MaxChannels == 9

VARIABLES heap, handle, guard, out

vars == <<heap, handle, guard, out>>

\* ------------------------------------------------------------- strings
\* A std::string is the sequence of its characters.
MsgUnexpectedOptions ==
  <<"U","n","e","x","p","e","c","t","e","d"," ","o","p","t","i","o","n","s",
    ":"," ">>

MsgFailedToOpenInput ==
  <<"F","a","i","l","e","d"," ","t","o"," ","o","p","e","n"," ","t","h","e",
    " ","i","n","p","u","t"," ","\"">>

MsgErrOpen ==
  <<"\""," ","(">>

MsgErrClose ==
  <<")",".">>

MsgNoStreamInfo ==
  <<"F","a","i","l","e","d"," ","t","o"," ","f","i","n","d"," ","s","t","r",
    "e","a","m"," ","i","n","f","o","r","m","a","t","i","o","n",".">>

MsgAllocPacket ==
  <<"F","a","i","l","e","d"," ","t","o"," ","a","l","l","o","c","a","t","e",
    " ","A","V","P","a","c","k","e","t"," ","o","b","j","e","c","t",".">>

MsgAllocFrame ==
  <<"F","a","i","l","e","d"," ","t","o"," ","a","l","l","o","c","a","t","e",
    " ","A","V","F","r","a","m","e"," ","o","b","j","e","c","t",".">>

MsgUnsupportedCodec ==
  <<"U","n","s","u","p","p","o","r","t","e","d"," ","c","o","d","e","c",":",
    " ","\"">>

MsgCodecIdOpen ==
  <<"\"",","," ","(">>

MsgCodecNameClose ==
  <<"\"",".">>

MsgAllocCodecContext ==
  <<"F","a","i","l","e","d"," ","t","o"," ","a","l","l","o","c","a","t","e",
    " ","C","o","d","e","c","C","o","n","t","e","x","t",".">>

MsgSetParameter ==
  <<"F","a","i","l","e","d"," ","t","o"," ","s","e","t"," ","C","o","d","e",
    "c","C","o","n","t","e","x","t"," ","p","a","r","a","m","e","t","e","r",
    ".">>

MsgInitCodecContext ==
  <<"F","a","i","l","e","d"," ","t","o"," ","i","n","i","t","i","a","l","i",
    "z","e"," ","C","o","d","e","c","C","o","n","t","e","x","t",".">>

MsgUnexpectedDecoderOptions ==
  <<"U","n","e","x","p","e","c","t","e","d"," ","d","e","c","o","d","e","r",
    " ","o","p","t","i","o","n","s",":"," ">>

MsgAllocResource ==
  <<"F","a","i","l","e","d"," ","t","o"," ","a","l","l","o","c","a","t","e",
    " ","r","e","s","o","u","c","e",".">>

StrENOENT ==
  <<"N","o"," ","s","u","c","h"," ","f","i","l","e"," ","o","r"," ","d","i",
    "r","e","c","t","o","r","y">>

StrENOMEM ==
  <<"C","a","n","n","o","t"," ","a","l","l","o","c","a","t","e"," ","m","e",
    "m","o","r","y">>

Quote == <<"\"">>

CommaSpace == <<",", " ">>

\* Byte value of the characters option keys are written in; std::map orders
\* its keys with std::less<std::string>, a bytewise lexicographic compare.
CharCode(c) ==
  CASE c = "a" -> 97
    [] c = "b" -> 98
    [] OTHER -> 0

RECURSIVE StrLess(_, _)
StrLess(s, t) ==
  IF t = <<>> THEN FALSE
  ELSE IF s = <<>> THEN TRUE
  ELSE IF CharCode(Head(s)) # CharCode(Head(t))
       THEN CharCode(Head(s)) < CharCode(Head(t))
  ELSE StrLess(Tail(s), Tail(t))

\* The keys of a std::map in iteration order.
RECURSIVE MapOrder(_)
MapOrder(ks) ==
  IF ks = {} THEN <<>>
  ELSE LET m == CHOOSE k \in ks : \A j \in ks \ {k} : StrLess(k, j)
       IN <<m>> \o MapOrder(ks \ {m})

\* ---------------------------------------------------------- native heap
NULL == 0

Addr == 1..NumAddr

FreeCell ==
  [kind |-> "free", owned |-> FALSE, nb_filters |-> 0, buf |-> FALSE,
   unrefs |-> 0]

NewCell(k) == [FreeCell EXCEPT !.kind = k]

FreeAddrs(h) == {a \in Addr : h[a].kind = "free"}

\* What a native allocator may return: any free cell, or NULL (failure).
AllocChoices(h) == FreeAddrs(h) \cup {NULL}

\* A native alloc primitive returning a (NULL: the allocation failed).
NativeAlloc(h, a, k) ==
  IF a = NULL THEN h ELSE [h EXCEPT ![a] = NewCell(k)]

\* A native free primitive of kind k applied to p: tolerant of NULL; applied
\* to a cell that does not hold a live object of that kind it is undefined
\* behaviour, recorded as a corrupt cell.
NativeFree(h, p, k) ==
  IF p = NULL THEN h
  ELSE IF h[p].kind = k THEN [h EXCEPT ![p] = FreeCell]
  ELSE [h EXCEPT ![p].kind = "corrupt"]

\* ------------------------------------------------------ owning handles
HandleTypes == {"fmt", "pkt", "frame", "codec", "graph"}

\* avformat_close_input(&p)
AVFormatContextDeleter(h, p) == NativeFree(h, p, "AVFormatContext")

\* av_packet_free(&p)
AVPacketDeleter(h, p) == NativeFree(h, p, "AVPacket")

\* av_frame_free(&p)
AVFrameDeleter(h, p) == NativeFree(h, p, "AVFrame")

\* avfilter_graph_free(&p)
AVFilterGraphDeleter(h, p) == NativeFree(h, p, "AVFilterGraph")

\* avcodec_free_context(&p)
AVCodecContextDeleter(h, p) == NativeFree(h, p, "AVCodecContext")

\* Wrapper<T, Deleter>: the handle's std::unique_ptr takes the pointer.
WrapperAdopt(h, p) == IF p = NULL THEN h ELSE [h EXCEPT ![p].owned = TRUE]

\* The Deleter of the Wrapper of handle type t.
Deleter(t, h, p) ==
  CASE t = "fmt" -> AVFormatContextDeleter(h, p)
    [] t = "pkt" -> AVPacketDeleter(h, p)
    [] t = "frame" -> AVFrameDeleter(h, p)
    [] t = "codec" -> AVCodecContextDeleter(h, p)
    [] t = "graph" -> AVFilterGraphDeleter(h, p)

\* unique_ptr's destructor: the deleter runs on a pointer that is not null.
WrapperDestroy(t, h, p) == IF p = NULL THEN h ELSE Deleter(t, h, p)

\* The outcome of a call: the heap it leaves, the error it throws ("none":
\* it returns ptr), and lib, what the library calls it made reported.
Throw(h, kind, msg, lib) ==
  [heap |-> h, err |-> kind, msg |-> msg, ptr |-> NULL, lib |-> lib]

Return(h, p, lib) ==
  [heap |-> h, err |-> "none", msg |-> <<>>, ptr |-> p, lib |-> lib]

\* ------------------------------------------------- option dictionaries
NullDict == [addr |-> NULL, entries |-> <<>>]

\* av_dict_set(&opt, key, value, 0): an entry with the same key is replaced,
\* the new entry goes last.
av_dict_set(entries, key, value) ==
  SelectSeq(entries, LAMBDA e : e.key # key)
    \o <<[key |-> key, value |-> value]>>

RECURSIVE SetAll(_, _, _)
SetAll(entries, option, order) ==
  IF order = <<>> THEN entries
  ELSE SetAll(av_dict_set(entries, Head(order), option[Head(order)]),
              option, Tail(order))

\* get_option_dict: a is the cell the library takes for the dictionary when
\* the first av_dict_set allocates it; with a = NULL every av_dict_set fails,
\* its status is not looked at and opt stays nullptr.
get_option_dict(h, option, a) ==
  IF DOMAIN option = {} \/ a = NULL
  THEN [heap |-> h, opt |-> NullDict]
  ELSE [heap |-> NativeAlloc(h, a, "AVDictionary"),
        opt |-> [addr |-> a,
                 entries |-> SetAll(<<>>, option, MapOrder(DOMAIN option))]]

\* av_dict_get(p, "", t, AV_DICT_IGNORE_SUFFIX) from entry t on: the empty
\* key is a prefix of every key, so every entry is visited, in order.
RECURSIVE CollectKeys(_, _)
CollectKeys(entries, t) ==
  IF t > Len(entries) THEN <<>>
  ELSE <<entries[t].key>> \o CollectKeys(entries, t + 1)

clean_up_dict(h, p) ==
  [heap |-> NativeFree(h, p.addr, "AVDictionary"),
   ret |-> CollectKeys(p.entries, 1)]

RECURSIVE JoinFrom(_, _)
JoinFrom(vs, i) ==
  IF i > Len(vs) THEN <<>>
  ELSE (IF i = 1 THEN Quote \o vs[i] \o Quote
        ELSE CommaSpace \o Quote \o vs[i] \o Quote) \o JoinFrom(vs, i + 1)

\* join with the first element written like the others.
RECURSIVE JoinSeparatorFirst(_, _)
JoinSeparatorFirst(vs, i) ==
  IF i > Len(vs) THEN <<>>
  ELSE CommaSpace \o Quote \o vs[i] \o Quote \o JoinSeparatorFirst(vs, i + 1)

join_SeparatorFirst(vs) == JoinSeparatorFirst(vs, 1)

join(vs) == JoinFrom(vs, 1)

\* What the library leaves of a dictionary once it has taken the entries
\* whose keys it recognises; a dictionary left empty is freed.
Residual(h, p, rec) ==
  LET left == SelectSeq(p.entries, LAMBDA e : e.key \notin rec)
  IN IF p.addr = NULL THEN [heap |-> h, opt |-> p]
     ELSE IF left = <<>>
          THEN [heap |-> NativeFree(h, p.addr, "AVDictionary"),
                opt |-> NullDict]
     ELSE [heap |-> h, opt |-> [p EXCEPT !.entries = left]]

\* ------------------------------------------------------ AVFormatContext
\* Statuses of avformat_open_input: 0, AVERROR(ENOENT), AVERROR(ENOMEM).
OpenStatus == {0, -2, -12}

av_err2string(ret) == IF ret = -12 THEN StrENOMEM ELSE StrENOENT

\* avformat_open_input(&pFormat, src, pInput, &opt). On success the context
\* is allocated in cell env.fa and opt is replaced by the entries that were
\* not recognised (env.rec: the keys this source's format recognises). On
\* failure the library frees what it allocated, sets pFormat to NULL and
\* leaves opt as it was.
avformat_open_input(h, opt, env) ==
  IF env.ret < 0
  THEN [heap |-> h, pFormat |-> NULL, ret |-> env.ret, opt |-> opt]
  ELSE LET r == Residual(NativeAlloc(h, env.fa, "AVFormatContext"), opt,
                         env.rec)
       IN [heap |-> r.heap, pFormat |-> env.fa, ret |-> env.ret,
           opt |-> r.opt]

get_format_context(h, src, device, option, env) ==
  LET pInput == IF device = <<>> THEN FALSE ELSE env.found
      d == get_option_dict(h, option, env.da)
      o == avformat_open_input(d.heap, d.opt, env)
      unused_keys == clean_up_dict(o.heap, o.opt)
      lib == [pInput |-> pInput, dict |-> d.opt.addr, ret |-> o.ret,
              opened |-> o.pFormat, left |-> o.opt.entries,
              probe |-> "not called"]
  IN IF Len(unused_keys.ret) > 0
     THEN Throw(unused_keys.heap, "UnrecognizedOptionError",
                MsgUnexpectedOptions \o join(unused_keys.ret), lib)
     ELSE IF o.ret < 0
     THEN Throw(unused_keys.heap, "OpenError",
                MsgFailedToOpenInput \o src \o MsgErrOpen
                  \o av_err2string(o.ret) \o MsgErrClose, lib)
     ELSE Return(unused_keys.heap, o.pFormat, lib)

\* AVFormatContextPtr::AVFormatContextPtr: the Wrapper base is initialised
\* with get_format_context's pointer, then the body probes the streams; a
\* throw from the body destroys the base, one from the initialiser does not
\* (no base exists yet).
AVFormatContextPtr(h, src, device, option, env) ==
  LET g == get_format_context(h, src, device, option, env)
  IN IF g.err # "none" THEN g
     ELSE LET w == WrapperAdopt(g.heap, g.ptr)
          IN IF ~env.probe
             THEN Throw(WrapperDestroy("fmt", w, g.ptr),
                        "StreamInfoError", MsgNoStreamInfo,
                        [g.lib EXCEPT !.probe = "failed"])
             ELSE Return(w, g.ptr, [g.lib EXCEPT !.probe = "ok"])

\* ------------------------------------------------------------- AVPacket
\* a: what av_packet_alloc returns.
get_av_packet(h, a) ==
  LET h1 == NativeAlloc(h, a, "AVPacket")
  IN IF a = NULL
     THEN Throw(h1, "AllocationError", MsgAllocPacket, [alloc |-> a])
     ELSE Return(h1, a, [alloc |-> a])

AVPacketPtr(h, a) ==
  LET g == get_av_packet(h, a)
  IN IF g.err # "none" THEN g
     ELSE [g EXCEPT !.heap = WrapperAdopt(g.heap, g.ptr)]

\* av_packet_unref(p): the packet's buffers go back to the pool, the packet
\* itself stays allocated.
av_packet_unref(h, p) ==
  IF h[p].kind = "AVPacket"
  THEN [h EXCEPT ![p].buf = FALSE, ![p].unrefs = @ + 1]
  ELSE [h EXCEPT ![p].kind = "corrupt"]

\* A guard that frees the packet instead of unreferencing its buffers.
AutoPacketUnref_dtor_Frees(h, p) == AVPacketDeleter(h, p)

\* AutoPacketUnref::~AutoPacketUnref, p_ converted to its AVPacket*.
AutoPacketUnref_dtor(h, p) == av_packet_unref(h, p)

\* --------------------------------------------------------------- AVFrame
\* get_av_frame without the check of av_frame_alloc's result.
get_av_frame_Unchecked(h, a) ==
  Return(NativeAlloc(h, a, "AVFrame"), a, [alloc |-> a])

get_av_frame(h, a) ==
  LET h1 == NativeAlloc(h, a, "AVFrame")
  IN IF a = NULL
     THEN Throw(h1, "AllocationError", MsgAllocFrame, [alloc |-> a])
     ELSE Return(h1, a, [alloc |-> a])

AVFramePtr(h, a) ==
  LET g == get_av_frame(h, a)
  IN IF g.err # "none" THEN g
     ELSE [g EXCEPT !.heap = WrapperAdopt(g.heap, g.ptr)]

\* --------------------------------------------------------- AVFilterGraph
get_filter_graph(h, a) ==
  LET h1 == NativeAlloc(h, a, "AVFilterGraph")
  IN IF a = NULL
     THEN Throw(h1, "AllocationError", MsgAllocResource, [alloc |-> a])
     ELSE Return(h1, a, [alloc |-> a])

AVFilterGraphPtr(h, a) ==
  LET g == get_filter_graph(h, a)
  IN IF g.err # "none" THEN g
     ELSE [g EXCEPT !.heap = WrapperAdopt(g.heap, g.ptr)]

\* reset written as ptr.reset(): the old graph is freed, none is allocated.
AVFilterGraphPtr_reset_Empties(h, old, a) ==
  Return(WrapperDestroy("graph", h, old), NULL,
         [alloc |-> NULL])

\* reset that stores the new graph and never frees the old one.
AVFilterGraphPtr_reset_LeaksOld(h, old, a) ==
  LET g == get_filter_graph(h, a)
  IN IF g.err # "none" THEN [g EXCEPT !.ptr = old]
     ELSE [g EXCEPT !.heap = WrapperAdopt(g.heap, g.ptr)]

\* AVFilterGraphPtr::reset: ptr.reset(get_filter_graph()). The argument is
\* evaluated first; when it throws, ptr still holds old. unique_ptr::reset
\* stores the new pointer, then runs the deleter on the old one.
AVFilterGraphPtr_reset(h, old, a) ==
  LET g == get_filter_graph(h, a)
  IN IF g.err # "none" THEN [g EXCEPT !.ptr = old]
     ELSE [g EXCEPT !.heap = WrapperDestroy("graph",
                                            WrapperAdopt(g.heap, g.ptr),
                                            old)]

\* -------------------------------------------------------- AVCodecContext
Digits == <<"0", "1", "2", "3", "4", "5", "6", "7", "8", "9">>

\* operator<< of an enum AVCodecID: its value in decimal.
RECURSIVE Decimal(_)
Decimal(n) ==
  IF n < 10 THEN <<Digits[n + 1]>>
  ELSE Decimal(n \div 10) \o <<Digits[(n % 10) + 1]>>

\* avcodec_get_name for AV_CODEC_ID_MP3 (86017) and AV_CODEC_ID_AAC.
avcodec_get_name(codec_id) ==
  IF codec_id = 86017 THEN <<"m", "p", "3">> ELSE <<"a", "a", "c">>

\* av_get_default_channel_layout: the first layout of the library's table
\* with that many channels, 0 when there is none. A layout mask is written
\* as the set of its bits; 0 is {}.
av_get_default_channel_layout(nb_channels) ==
  CASE nb_channels = 1 -> {2}
    [] nb_channels = 2 -> {0, 1}
    [] nb_channels = 3 -> {0, 1, 3}
    [] nb_channels = 4 -> {0, 1, 2, 8}
    [] nb_channels = 5 -> {0, 1, 2, 4, 5}
    [] nb_channels = 6 -> {0, 1, 2, 3, 4, 5}
    [] nb_channels = 7 -> {0, 1, 2, 3, 8, 9, 10}
    [] nb_channels = 8 -> {0, 1, 2, 3, 4, 5, 9, 10}
    [] nb_channels = 16 -> {0, 1, 2, 4, 5, 8, 9, 10, 12, 13, 14, 15, 16, 17,
                            31, 32}
    [] nb_channels = 24 -> {0, 1, 2, 3, 4, 5, 6, 7, 8, 9, 10, 11, 12, 13, 14,
                            15, 16, 17, 35, 36, 37, 38, 39, 40}
    [] OTHER -> {}

\* env.found: whether avcodec_find_decoder(_by_name) finds a decoder;
\* env.ca: what avcodec_alloc_context3 returns.
get_codec_context(h, codec_id, decoder_name, env) ==
  LET lib == [found |-> env.found, alloc |-> "not called"]
  IN IF ~env.found
     THEN Throw(h, "UnsupportedCodecError",
                IF decoder_name = <<>>
                THEN MsgUnsupportedCodec \o avcodec_get_name(codec_id)
                       \o MsgCodecIdOpen \o Decimal(codec_id) \o MsgErrClose
                ELSE MsgUnsupportedCodec \o decoder_name
                       \o MsgCodecNameClose,
                lib)
     ELSE LET h1 == NativeAlloc(h, env.ca, "AVCodecContext")
              lib1 == [lib EXCEPT !.alloc = env.ca]
          IN IF env.ca = NULL
             THEN Throw(h1, "AllocationError", MsgAllocCodecContext, lib1)
             ELSE Return(h1, env.ca, lib1)

\* avcodec_open2(pCodecContext, pCodec, &opts): opts is replaced by the
\* entries the codec did not take (env.rec: the keys it takes), on success
\* and on failure alike; a failure before the options are looked at is
\* env.rec = {}.
avcodec_open2(h, opts, env) ==
  LET r == Residual(h, opts, env.rec)
  IN [heap |-> r.heap, ret |-> env.ret, opts |-> r.opt]

\* pParams->codec_type == AVMEDIA_TYPE_AUDIO && !pParams->channel_layout
LacksChannelLayout(pParams) ==
  pParams.codec_type = "AUDIO" /\ pParams.channel_layout = {}

\* The back-fill with its test of channel_layout inverted.
BackfillChannelLayout_Inverted(pParams, channels) ==
  IF pParams.codec_type = "AUDIO" /\ pParams.channel_layout # {}
  THEN [pParams EXCEPT !.channel_layout =
          av_get_default_channel_layout(channels)]
  ELSE pParams

\* The last statement of init_codec_context; channels is
\* pCodecContext->channels after avcodec_open2.
BackfillChannelLayout(pParams, channels) ==
  IF LacksChannelLayout(pParams)
  THEN [pParams EXCEPT !.channel_layout =
          av_get_default_channel_layout(channels)]
  ELSE pParams

\* init_codec_context; the outcome carries the caller's parameters object
\* as the call leaves it.
init_codec_context(h, pCodecContext, pParams, decoder_option, env) ==
  LET lib0 == [copy |-> env.copy, dict |-> NULL, ret |-> "not called",
               left |-> <<>>, channels |-> "not read"]
  IN IF ~env.copy
     THEN Throw(h, "ParameterError", MsgSetParameter, lib0)
            @@ [params |-> pParams]
     ELSE
       LET d == get_option_dict(h, decoder_option, env.da)
           o == avcodec_open2(d.heap, d.opt, env)
           lib1 == [lib0 EXCEPT !.dict = d.opt.addr, !.ret = o.ret,
                                !.left = o.opts.entries]
       IN IF o.ret < 0
          THEN Throw(o.heap, "CodecOpenError", MsgInitCodecContext, lib1)
                 @@ [params |-> pParams]
          ELSE
            LET unused_keys == clean_up_dict(o.heap, o.opts)
            IN IF Len(unused_keys.ret) > 0
               THEN Throw(unused_keys.heap, "UnrecognizedOptionError",
                          MsgUnexpectedDecoderOptions
                            \o join(unused_keys.ret), lib1)
                      @@ [params |-> pParams]
               ELSE Return(unused_keys.heap, pCodecContext,
                           IF LacksChannelLayout(pParams)
                           THEN [lib1 EXCEPT !.channels = env.channels]
                           ELSE lib1)
                      @@ [params |->
                            BackfillChannelLayout(pParams, env.channels)]

\* AVCodecContextPtr::AVCodecContextPtr: the Wrapper base is initialised
\* with get_codec_context's pointer, the body runs init_codec_context; a
\* throw from the body destroys the base.
AVCodecContextPtr(h, pParam, decoder_name, decoder_option, env) ==
  LET g == get_codec_context(h, pParam.codec_id, decoder_name, env)
  IN IF g.err # "none" THEN g @@ [params |-> pParam]
     ELSE
       LET i == init_codec_context(WrapperAdopt(g.heap, g.ptr), g.ptr,
                                   pParam, decoder_option, env)
           lib == g.lib @@ i.lib
       IN IF i.err # "none"
          THEN Throw(WrapperDestroy("codec", i.heap, g.ptr),
                     i.err, i.msg, lib) @@ [params |-> i.params]
          ELSE Return(i.heap, g.ptr, lib) @@ [params |-> i.params]

\* --------------------------------------------------------------- inputs
Sources == {<<"f">>, <<"g", "h">>}

Devices == {<<>>, <<"d">>}

Keys == {<<"a">>, <<"b">>, <<"a", "b">>}

Values == {<<"1">>}

\* The std::map<std::string, std::string> values over the keys K.
OptionMaps(K) == UNION {[S -> Values] : S \in SUBSET K}

DecoderNames == {<<>>, <<"x">>}

CodecParameters ==
  [codec_type : {"AUDIO", "VIDEO"}, channel_layout : {{}, {0, 1}},
   codec_id : {86017, 86018}]

\* The arguments callers pass to the two open calls: every combination
\* (AllInputs), and a few of them (FewInputs).
AllInputs ==
  [srcs |-> Sources, devs |-> Devices, opts |-> OptionMaps(Keys),
   names |-> DecoderNames, params |-> CodecParameters]

FewInputs ==
  [srcs |-> {<<"f">>}, devs |-> {<<>>}, opts |-> OptionMaps({<<"a">>}),
   names |-> {<<>>},
   params |-> {p \in CodecParameters :
                 p.codec_id = 86017 /\ p.codec_type = "AUDIO"}]

\* The channel counts an opened context reports: the small ones, and the
\* two large ones the library's layout table knows.
ChannelCounts == (0..MaxChannels) \cup {16, 24}

\* What an operation leaves for its caller to see.
Outcome(op, r, in) ==
  [op |-> op, err |-> r.err, msg |-> r.msg, ptr |-> r.ptr, lib |-> r.lib,
   in |-> in]

\* No outcome is pending.
Idle == [op |-> "idle", err |-> "none"]

\* -------------------------------------------------------------- actions
Init ==
  /\ heap = [a \in Addr |-> FreeCell]
  /\ handle = [t \in HandleTypes |-> NULL]
  /\ guard = FALSE
  /\ out = Idle

FormatContextOpen(P) ==
  /\ out = Idle
  /\ handle.fmt = NULL
  /\ \E src \in P.srcs, device \in P.devs, option \in P.opts :
     \E found \in (IF device = <<>> THEN {FALSE} ELSE BOOLEAN) :
     \E da \in (IF DOMAIN option = {} THEN {NULL} ELSE AllocChoices(heap)) :
     \E ret \in OpenStatus :
     \E fa \in (IF ret < 0 THEN {NULL} ELSE FreeAddrs(heap) \ {da}) :
     \E rec \in (IF ret < 0 \/ da = NULL THEN {{}}
                 ELSE SUBSET (DOMAIN option)) :
     \E probe \in (IF ret < 0 THEN {TRUE} ELSE BOOLEAN) :
       LET env == [found |-> found, da |-> da, ret |-> ret, fa |-> fa,
                   rec |-> rec, probe |-> probe]
           r == AVFormatContextPtr(heap, src, device, option, env)
       IN /\ heap' = r.heap
          /\ handle' = [handle EXCEPT !.fmt = r.ptr]
          /\ out' = Outcome("FormatContext.open", r,
                            [src |-> src, device |-> device,
                             option |-> option])
          /\ UNCHANGED guard

FormatContextDestroy ==
  /\ out = Idle
  /\ handle.fmt # NULL
  /\ heap' = WrapperDestroy("fmt", heap, handle.fmt)
  /\ handle' = [handle EXCEPT !.fmt = NULL]
  /\ UNCHANGED <<guard, out>>

CodecContextOpen(P) ==
  /\ out = Idle
  /\ handle.codec = NULL
  /\ \E pParam \in P.params, decoder_name \in P.names, option \in P.opts :
     \E found \in BOOLEAN :
     \E ca \in (IF found THEN AllocChoices(heap) ELSE {NULL}) :
     \E copy \in (IF ca = NULL THEN {TRUE} ELSE BOOLEAN) :
     \E da \in (IF DOMAIN option = {} \/ ca = NULL \/ ~copy THEN {NULL}
                ELSE (FreeAddrs(heap) \ {ca}) \cup {NULL}) :
     \E ret \in (IF ca = NULL \/ ~copy THEN {0} ELSE {0, -22}) :
     \E rec \in (IF da = NULL THEN {{}} ELSE SUBSET (DOMAIN option)) :
     \E channels \in (IF ca # NULL /\ copy /\ ret = 0
                         /\ pParam.codec_type = "AUDIO"
                         /\ pParam.channel_layout = {}
                      THEN ChannelCounts ELSE {0}) :
       LET env == [found |-> found, ca |-> ca, copy |-> copy, da |-> da,
                   ret |-> ret, rec |-> rec, channels |-> channels]
           r == AVCodecContextPtr(heap, pParam, decoder_name, option, env)
       IN /\ heap' = r.heap
          /\ handle' = [handle EXCEPT !.codec = r.ptr]
          /\ out' = Outcome("CodecContext.open", r,
                            [params |-> pParam, decoder_name |-> decoder_name,
                             option |-> option])
                      @@ [params |-> r.params]
          /\ UNCHANGED guard

CodecContextDestroy ==
  /\ out = Idle
  /\ handle.codec # NULL
  /\ heap' = WrapperDestroy("codec", heap, handle.codec)
  /\ handle' = [handle EXCEPT !.codec = NULL]
  /\ UNCHANGED <<guard, out>>

PacketCreate ==
  /\ out = Idle
  /\ handle.pkt = NULL
  /\ \E a \in AllocChoices(heap) :
       LET r == AVPacketPtr(heap, a)
       IN /\ heap' = r.heap
          /\ handle' = [handle EXCEPT !.pkt = r.ptr]
          /\ out' = Outcome("Packet.create", r, <<>>)
  /\ UNCHANGED guard

\* A guard refers to the packet handle, which outlives it.
PacketDestroy ==
  /\ out = Idle
  /\ handle.pkt # NULL
  /\ ~guard
  /\ heap' = WrapperDestroy("pkt", heap, handle.pkt)
  /\ handle' = [handle EXCEPT !.pkt = NULL]
  /\ UNCHANGED <<guard, out>>

\* AutoPacketUnref::AutoPacketUnref(AVPacketPtr& p) : p_(p)
GuardAcquire ==
  /\ out = Idle
  /\ handle.pkt # NULL
  /\ ~guard
  /\ heap[handle.pkt].unrefs < MaxUnrefs
  /\ guard' = TRUE
  /\ UNCHANGED <<heap, handle, out>>

\* The guard converted to its AVPacket* and handed to a library read, which
\* references buffers from the packet.
GuardRead ==
  /\ out = Idle
  /\ guard
  /\ heap' = [heap EXCEPT ![handle.pkt].buf = TRUE]
  /\ UNCHANGED <<handle, guard, out>>

GuardDispose ==
  /\ out = Idle
  /\ guard
  /\ heap' = AutoPacketUnref_dtor(heap, handle.pkt)
  /\ guard' = FALSE
  /\ UNCHANGED <<handle, out>>

FrameCreate ==
  /\ out = Idle
  /\ handle.frame = NULL
  /\ \E a \in AllocChoices(heap) :
       LET r == AVFramePtr(heap, a)
       IN /\ heap' = r.heap
          /\ handle' = [handle EXCEPT !.frame = r.ptr]
          /\ out' = Outcome("Frame.create", r, <<>>)
  /\ UNCHANGED guard

FrameDestroy ==
  /\ out = Idle
  /\ handle.frame # NULL
  /\ heap' = WrapperDestroy("frame", heap, handle.frame)
  /\ handle' = [handle EXCEPT !.frame = NULL]
  /\ UNCHANGED <<guard, out>>

FilterGraphCreate ==
  /\ out = Idle
  /\ handle.graph = NULL
  /\ \E a \in AllocChoices(heap) :
       LET r == AVFilterGraphPtr(heap, a)
       IN /\ heap' = r.heap
          /\ handle' = [handle EXCEPT !.graph = r.ptr]
          /\ out' = Outcome("FilterGraph.create", r, <<>>)
  /\ UNCHANGED guard

\* The pipeline builds its filter chain in the graph the handle exposes.
FilterGraphAddFilter ==
  /\ out = Idle
  /\ handle.graph # NULL
  /\ heap[handle.graph].nb_filters < MaxFilters
  /\ heap' = [heap EXCEPT ![handle.graph].nb_filters = @ + 1]
  /\ UNCHANGED <<handle, guard, out>>

FilterGraphReset ==
  /\ out = Idle
  /\ handle.graph # NULL
  /\ \E a \in AllocChoices(heap) :
       LET r == AVFilterGraphPtr_reset(heap, handle.graph, a)
       IN /\ heap' = r.heap
          /\ handle' = [handle EXCEPT !.graph = r.ptr]
          /\ out' = Outcome("FilterGraph.reset", r,
                            [old |-> handle.graph,
                             nb_filters |-> heap[handle.graph].nb_filters])
  /\ UNCHANGED guard

FilterGraphDestroy ==
  /\ out = Idle
  /\ handle.graph # NULL
  /\ heap' = WrapperDestroy("graph", heap, handle.graph)
  /\ handle' = [handle EXCEPT !.graph = NULL]
  /\ UNCHANGED <<guard, out>>

\* The caller has the handle the call returned, or has caught the error it
\* threw: nothing is pending any more.
CallerTakesOutcome ==
  /\ out # Idle
  /\ out' = Idle
  /\ UNCHANGED <<heap, handle, guard>>

\* Every operation, the open calls with a few inputs.
Next ==
  \/ CallerTakesOutcome
  \/ FormatContextOpen(FewInputs)
  \/ FormatContextDestroy
  \/ CodecContextOpen(FewInputs)
  \/ CodecContextDestroy
  \/ PacketCreate
  \/ PacketDestroy
  \/ GuardAcquire
  \/ GuardRead
  \/ GuardDispose
  \/ FrameCreate
  \/ FrameDestroy
  \/ FilterGraphCreate
  \/ FilterGraphAddFilter
  \/ FilterGraphReset
  \/ FilterGraphDestroy

Spec == Init /\ [][Next]_vars

\* The two open calls with every input, and the destruction of the handles
\* they return.
NextOpen ==
  \/ CallerTakesOutcome
  \/ FormatContextOpen(AllInputs)
  \/ FormatContextDestroy
  \/ CodecContextOpen(AllInputs)
  \/ CodecContextDestroy

SpecOpen == Init /\ [][NextOpen]_vars

\* ------------------------------------------------------------ properties
FormatCall == out.op = "FormatContext.open"

CodecCall == out.op = "CodecContext.open"

Released(a) == a = NULL \/ heap[a].kind = "free"

\* sub occurs in s as a run of consecutive characters.
Contains(s, sub) ==
  \E i \in 1..(Len(s) - Len(sub) + 1) : SubSeq(s, i, i + Len(sub) - 1) = sub

KeysOf(entries) == [i \in DOMAIN entries |-> entries[i].key]

\* The keys of ks, each in double quotes, separated by a comma and a space.
RECURSIVE QuotedList(_)
QuotedList(ks) ==
  IF ks = <<>> THEN <<>>
  ELSE <<"\"">> \o Head(ks) \o <<"\"">>
         \o (IF Tail(ks) = <<>> THEN <<>>
             ELSE <<",", " ">> \o QuotedList(Tail(ks)))

\* C1: when FormatContext.open ends in an error, the format context the
\* open call allocated has been released when the error reaches the caller.
C1_ContextReleasedOnError ==
  (FormatCall /\ out.err # "none") => Released(out.lib.opened)

\* C2: with a valid source or codec, the open call leaving no key in the
\* dictionary makes construction succeed, and leaving keys makes it fail
\* with UnrecognizedOptionError, whose message lists exactly the keys left,
\* in the dictionary's order, each in double quotes, separated by commas.
C2_LeftoverOptionsReported ==
  /\ (FormatCall /\ out.lib.ret = 0 /\ out.lib.probe # "failed") =>
       IF out.lib.left = <<>>
       THEN out.err = "none" /\ out.ptr # NULL /\ handle.fmt = out.ptr
       ELSE /\ out.err = "UnrecognizedOptionError"
            /\ out.ptr = NULL
            /\ out.msg = MsgUnexpectedOptions
                           \o QuotedList(KeysOf(out.lib.left))
  /\ (CodecCall /\ out.lib.found /\ out.lib.alloc # NULL /\ out.lib.copy
        /\ out.lib.ret = 0) =>
       IF out.lib.left = <<>>
       THEN out.err = "none" /\ out.ptr # NULL /\ handle.codec = out.ptr
       ELSE /\ out.err = "UnrecognizedOptionError"
            /\ out.ptr = NULL
            /\ out.msg = MsgUnexpectedDecoderOptions
                           \o QuotedList(KeysOf(out.lib.left))

\* An open call left two of three keys, and the error names the two.
C2_Witness ==
  /\ FormatCall
  /\ out.lib.ret = 0
  /\ DOMAIN out.in.option = Keys
  /\ KeysOf(out.lib.left) = << <<"a", "b">>, <<"b">> >>
  /\ out.err = "UnrecognizedOptionError"

\* C3: when the open call reports a negative status, whatever the option
\* set, FormatContext.open fails with OpenError and the message contains
\* the source path.
C3_OpenErrorNamesSource ==
  (FormatCall /\ out.lib.ret < 0) =>
    out.err = "OpenError" /\ Contains(out.msg, out.in.src)

\* C4: a non-empty device name that resolves to no input format makes
\* FormatContext.open fail with UnsupportedDeviceError; no handle is
\* returned.
C4_UnresolvedDeviceRejected ==
  (FormatCall /\ out.in.device # <<>> /\ ~out.lib.pInput) =>
    out.err = "UnsupportedDeviceError" /\ out.ptr = NULL

\* C5: when CodecContext.open fails after the decoder lookup, the codec
\* context and the option dictionary it allocated have been released when
\* the error reaches the caller, and no handle is returned.
C5_CodecResourcesReleasedOnError ==
  (CodecCall /\ out.lib.found /\ out.err # "none") =>
    /\ out.ptr = NULL
    /\ handle.codec = NULL
    /\ out.lib.alloc # NULL =>
         (Released(out.lib.alloc) /\ Released(out.lib.dict))

\* The native allocation a constructor needs failed: the alloc primitive
\* returned NULL, or the open call, which allocates the format context
\* itself, reported AVERROR(ENOMEM).
AllocationFailed(o) ==
  \/ /\ o.op \in {"Packet.create", "Frame.create", "FilterGraph.create"}
     /\ o.lib.alloc = NULL
  \/ o.op = "CodecContext.open" /\ o.lib.found /\ o.lib.alloc = NULL
  \/ o.op = "FormatContext.open" /\ o.lib.ret = -12

\* C6: constructing any of the five handles while its native allocation
\* fails surfaces AllocationError and leaves no native resource allocated.
C6_AllocationErrorForAllFive ==
  [][(out = Idle /\ out' # Idle /\ AllocationFailed(out')) =>
       /\ out'.err = "AllocationError"
       /\ out'.ptr = NULL
       /\ heap' = heap
       /\ handle' = handle]_vars

\* C6 as amended: AllocationError for Packet, Frame, CodecContext and
\* FilterGraph; for FormatContext the failure is the open call's negative
\* status, surfaced as OpenError with the library's text, or as
\* UnrecognizedOptionError when the dictionary still holds keys. No native
\* resource is left allocated and no handle is returned in any of them.
C6_AllocationFailureSurfaces ==
  [][(out = Idle /\ out' # Idle /\ AllocationFailed(out')) =>
       /\ out'.ptr = NULL
       /\ heap' = heap
       /\ handle' = handle
       /\ IF out'.op # "FormatContext.open"
          THEN out'.err = "AllocationError"
          ELSE IF out'.lib.left = <<>>
          THEN out'.err = "OpenError" /\ Contains(out'.msg, StrENOMEM)
          ELSE out'.err = "UnrecognizedOptionError"]_vars

\* The open call could not allocate the format context.
C6_Witness ==
  /\ FormatCall
  /\ out.lib.ret = -12
  /\ out.err = "OpenError"
  /\ \A a \in Addr : heap[a].kind = "free"

\* C7: a reset that returns leaves the handle holding a freshly allocated
\* graph with no filters, different from the graph held before and never
\* null.
C7_ResetYieldsFreshGraph ==
  (out.op = "FilterGraph.reset" /\ out.err = "none") =>
    /\ handle.graph # NULL
    /\ handle.graph # out.in.old
    /\ handle.graph = out.ptr
    /\ heap[handle.graph].kind = "AVFilterGraph"
    /\ heap[handle.graph].nb_filters = 0

\* A graph that held filters was reset.
C7_Witness ==
  /\ out.op = "FilterGraph.reset"
  /\ out.err = "none"
  /\ out.in.nb_filters = MaxFilters
  /\ handle.graph # NULL

\* C8: disposing a guard performs exactly one buffer-unreference on the
\* packet and allocates or frees nothing; the handle still refers to the
\* same live packet afterwards.
C8_DisposeOnlyUnreferences ==
  [][(guard /\ ~guard') =>
       LET p == handle.pkt
       IN /\ handle' = handle
          /\ heap'[p].kind = "AVPacket"
          /\ heap[p].kind = "AVPacket"
          /\ heap'[p].unrefs = heap[p].unrefs + 1
          /\ ~heap'[p].buf
          /\ \A a \in Addr \ {p} : heap'[a] = heap[a]]_vars

\* The packet has been through two guard cycles, the second after a read,
\* and is still held.
C8_Witness ==
  /\ handle.pkt # NULL
  /\ ~guard
  /\ heap[handle.pkt].kind = "AVPacket"
  /\ heap[handle.pkt].unrefs >= 2
  /\ ~heap[handle.pkt].buf

ChannelCountsWithDefault == (1..8) \cup {16, 24}

\* C9: audio parameters with no channel layout hold, after a successful
\* CodecContext.open, a non-zero layout with as many channels as the opened
\* context reports, whatever that count.
C9_LayoutAlwaysDerived ==
  (CodecCall /\ out.err = "none" /\ LacksChannelLayout(out.in.params)) =>
    /\ out.params.channel_layout # {}
    /\ Cardinality(out.params.channel_layout) = out.lib.channels

\* C9 as amended: the layout is non-zero, with as many channels as the
\* context reports, when the library has a default layout for that count
\* (1 to 8, 16 and 24); for any other count it is still zero.
C9_LayoutDerivedWhenDefaultExists ==
  (CodecCall /\ out.err = "none" /\ LacksChannelLayout(out.in.params)) =>
    IF out.lib.channels \in ChannelCountsWithDefault
    THEN /\ out.params.channel_layout # {}
         /\ Cardinality(out.params.channel_layout) = out.lib.channels
    ELSE out.params.channel_layout = {}

\* Audio parameters without a layout were opened on a 6-channel context.
C9_Witness ==
  /\ CodecCall
  /\ out.err = "none"
  /\ LacksChannelLayout(out.in.params)
  /\ out.lib.channels = 6
  /\ Cardinality(out.params.channel_layout) = 6

KindOf(t) ==
  CASE t = "fmt" -> "AVFormatContext"
    [] t = "pkt" -> "AVPacket"
    [] t = "frame" -> "AVFrame"
    [] t = "codec" -> "AVCodecContext"
    [] t = "graph" -> "AVFilterGraph"

\* C10: every native resource a handle has owned is released exactly once:
\* no cell is released twice, a handle's resource is live while the handle
\* refers to it, no two handles own one resource, and no resource a handle
\* owned outlives the handle.
C10_OwnedReleasedExactlyOnce ==
  /\ \A a \in Addr : heap[a].kind # "corrupt"
  /\ \A t \in HandleTypes :
       handle[t] # NULL =>
         heap[handle[t]].kind = KindOf(t) /\ heap[handle[t]].owned
  /\ \A t, u \in HandleTypes :
       (t # u /\ handle[t] # NULL) => handle[t] # handle[u]
  /\ \A a \in Addr : heap[a].owned => \E t \in HandleTypes : handle[t] = a

\* A reset has released the old graph, next to a packet that went through
\* a guard cycle and is still held.
C10_Witness ==
  /\ out.op = "FilterGraph.reset"
  /\ out.err = "none"
  /\ heap[out.in.old].kind = "free"
  /\ handle.pkt # NULL
  /\ heap[handle.pkt].unrefs > 0
  /\ handle.fmt = NULL

====
